---- MODULE Spec2Model ----
(***************************************************************************)
(* LiteShell (src/liteshell.cpp): the tokenizer, expand_wildcards, the      *)
(* redirection/pipeline parser of execute_command, the process             *)
(* orchestration of execute_command, execute_redirection and               *)
(* execute_pipeline, and main's loop with the builtins.                    *)
(*                                                                         *)
(* A character is a one-character string, a token (std::string) is a       *)
(* sequence of characters, the empty std::string is <<>>.                  *)
(***************************************************************************)
EXTENDS Integers, Sequences, FiniteSets, TLC

\* ------------------------------------------------------------------ bounds
MaxTokens == 5        \* longest arbitrary token sequence that is executed
MaxStages == 3        \* longest well-formed pipeline that is executed
MaxLineLen == 5       \* longest raw input line given to the tokenizer
MaxData == 2          \* number of data items the input source supplies
MaxPatLen == 3        \* longest pattern given to expand_wildcards alone
MaxNameLen == 2       \* longest name of a directory entry
MaxEntries == 2       \* most entries of the directory that is listed
MaxCommands == 2      \* number of lines main reads in one behaviour
MaxRawLen == 5        \* longest raw line that is tokenized, expanded and parsed

\* ------------------------------------------------------------------ tokens
LT == <<"<">>
GT == <<">">>
GTGT == <<">", ">">>
PIPE == <<"|">>
AMP == <<"&">>
WordA == <<"a">>
WordF == <<"f">>
EmptyStr == <<>>

Tokens == {WordA, WordF, LT, GT, GTGT, PIPE, AMP}

RECURSIVE SeqsUpTo(_, _)
SeqsUpTo(S, n) ==
  IF n = 0 THEN {<<>>}
  ELSE LET shorter == SeqsUpTo(S, n - 1)
       IN  shorter \cup {Append(s, x) : s \in {t \in shorter : Len(t) = n - 1}, x \in S}

\* ------------------------------------------- execute_command: the parsing
\* cmd_args.back() == "&"  ->  background = true; cmd_args.pop_back()
StripBackground(a) ==
  IF Len(a) > 0 /\ a[Len(a)] = AMP
  THEN [background |-> TRUE, cmd_args |-> SubSeq(a, 1, Len(a) - 1)]
  ELSE [background |-> FALSE, cmd_args |-> a]

\* cmd_args.erase(begin + i, begin + i + 2), with 1-based i
Erase2(ca, i) == SubSeq(ca, 1, i - 1) \o SubSeq(ca, i + 2, Len(ca))

\* ExtractLoop with a ">" or ">>" match that also clears the input path
RECURSIVE ExtractLoopOutputClearsInput(_, _, _, _, _)
ExtractLoopOutputClearsInput(ca, i, inf, outf, app) ==
  IF i > Len(ca)
  THEN [err |-> "", cmd_args |-> ca, input_file |-> inf, output_file |-> outf, append |-> app]
  ELSE IF ca[i] = LT
  THEN IF i + 1 <= Len(ca)
       THEN ExtractLoopOutputClearsInput(Erase2(ca, i), i, ca[i + 1], outf, app)
       ELSE [err |-> "no input file", cmd_args |-> ca, input_file |-> inf, output_file |-> outf, append |-> app]
  ELSE IF ca[i] \in {GT, GTGT}
  THEN IF i + 1 <= Len(ca)
       THEN ExtractLoopOutputClearsInput(Erase2(ca, i), i, EmptyStr, ca[i + 1], ca[i] = GTGT)
       ELSE [err |-> "no output file", cmd_args |-> ca, input_file |-> inf, output_file |-> outf, append |-> app]
  ELSE ExtractLoopOutputClearsInput(ca, i + 1, inf, outf, app)

\* ExtractLoop without the i + 1 < size() checks: an operator that ends the
\* sequence is stepped over like any other token
RECURSIVE ExtractLoopNoPathCheck(_, _, _, _, _)
ExtractLoopNoPathCheck(ca, i, inf, outf, app) ==
  IF i > Len(ca)
  THEN [err |-> "", cmd_args |-> ca, input_file |-> inf, output_file |-> outf, append |-> app]
  ELSE IF ca[i] = LT /\ i + 1 <= Len(ca)
  THEN ExtractLoopNoPathCheck(Erase2(ca, i), i, ca[i + 1], outf, app)
  ELSE IF ca[i] \in {GT, GTGT} /\ i + 1 <= Len(ca)
  THEN ExtractLoopNoPathCheck(Erase2(ca, i), i, inf, ca[i + 1], ca[i] = GTGT)
  ELSE ExtractLoopNoPathCheck(ca, i + 1, inf, outf, app)

\* ExtractLoop that keeps a path once it is set: later matches are only erased
RECURSIVE ExtractLoopKeepsFirst(_, _, _, _, _)
ExtractLoopKeepsFirst(ca, i, inf, outf, app) ==
  IF i > Len(ca)
  THEN [err |-> "", cmd_args |-> ca, input_file |-> inf, output_file |-> outf, append |-> app]
  ELSE IF ca[i] = LT
  THEN IF i + 1 <= Len(ca)
       THEN ExtractLoopKeepsFirst(Erase2(ca, i), i, IF inf = EmptyStr THEN ca[i + 1] ELSE inf, outf, app)
       ELSE [err |-> "no input file", cmd_args |-> ca, input_file |-> inf, output_file |-> outf, append |-> app]
  ELSE IF ca[i] \in {GT, GTGT}
  THEN IF i + 1 <= Len(ca)
       THEN ExtractLoopKeepsFirst(Erase2(ca, i), i, inf,
                                  IF outf = EmptyStr THEN ca[i + 1] ELSE outf,
                                  IF outf = EmptyStr THEN ca[i] = GTGT ELSE app)
       ELSE [err |-> "no output file", cmd_args |-> ca, input_file |-> inf, output_file |-> outf, append |-> app]
  ELSE ExtractLoopKeepsFirst(ca, i + 1, inf, outf, app)

\* the scan for "<", ">", ">>": each match overwrites the path it sets
RECURSIVE ExtractLoop(_, _, _, _, _)
ExtractLoop(ca, i, inf, outf, app) ==
  IF i > Len(ca)
  THEN [err |-> "", cmd_args |-> ca, input_file |-> inf, output_file |-> outf, append |-> app]
  ELSE IF ca[i] = LT
  THEN IF i + 1 <= Len(ca)
       THEN ExtractLoop(Erase2(ca, i), i, ca[i + 1], outf, app)
       ELSE [err |-> "no input file", cmd_args |-> ca, input_file |-> inf, output_file |-> outf, append |-> app]
  ELSE IF ca[i] = GT
  THEN IF i + 1 <= Len(ca)
       THEN ExtractLoop(Erase2(ca, i), i, inf, ca[i + 1], FALSE)
       ELSE [err |-> "no output file", cmd_args |-> ca, input_file |-> inf, output_file |-> outf, append |-> app]
  ELSE IF ca[i] = GTGT
  THEN IF i + 1 <= Len(ca)
       THEN ExtractLoop(Erase2(ca, i), i, inf, ca[i + 1], TRUE)
       ELSE [err |-> "no output file", cmd_args |-> ca, input_file |-> inf, output_file |-> outf, append |-> app]
  ELSE ExtractLoop(ca, i + 1, inf, outf, app)

ExtractRedirections(ca) == ExtractLoop(ca, 1, EmptyStr, EmptyStr, FALSE)

\* the split on "|": an empty current_command is never pushed
RECURSIVE SplitLoop(_, _, _, _)
SplitLoop(ca, k, cmds, cur) ==
  IF k > Len(ca)
  THEN IF cur # <<>> THEN Append(cmds, cur) ELSE cmds
  ELSE IF ca[k] = PIPE
  THEN IF cur # <<>> THEN SplitLoop(ca, k + 1, Append(cmds, cur), <<>>)
                     ELSE SplitLoop(ca, k + 1, cmds, cur)
  ELSE SplitLoop(ca, k + 1, cmds, Append(cur, ca[k]))

SplitPipeline(ca) == SplitLoop(ca, 1, <<>>, <<>>)

\* ------------------------------------------- parse_command: the tokenizer
DQ == "\""
SQ == "'"
BS == "\\"
Chars == {"a", "b", " ", "\t", DQ, SQ, BS}

\* isspace() in the "C" locale (the vertical tab has no TLA+ spelling)
IsSpace(c) == c \in {" ", "\t", "\n", "\r", "\f"}

ScanStart ==
  [tokens |-> <<>>, token |-> <<>>, in_quote |-> FALSE,
   in_single_quote |-> FALSE, escape_next |-> FALSE]

\* ScanChar with whitespace that ends the token inside quotes as well
ScanCharSplitsInQuotes(s, c) ==
  IF s.escape_next
  THEN [s EXCEPT !.token = Append(@, c), !.escape_next = FALSE]
  ELSE IF c = BS
  THEN [s EXCEPT !.escape_next = TRUE]
  ELSE IF c = DQ /\ ~s.in_single_quote
  THEN [s EXCEPT !.in_quote = ~@]
  ELSE IF c = SQ /\ ~s.in_quote
  THEN [s EXCEPT !.in_single_quote = ~@]
  ELSE IF IsSpace(c)
  THEN IF s.token # <<>>
       THEN [s EXCEPT !.tokens = Append(@, s.token), !.token = <<>>]
       ELSE s
  ELSE [s EXCEPT !.token = Append(@, c)]

\* ScanChar without the backslash branch: a backslash is an ordinary character
ScanCharNoEscape(s, c) ==
  IF c = DQ /\ ~s.in_single_quote
  THEN [s EXCEPT !.in_quote = ~@]
  ELSE IF c = SQ /\ ~s.in_quote
  THEN [s EXCEPT !.in_single_quote = ~@]
  ELSE IF IsSpace(c) /\ ~s.in_quote /\ ~s.in_single_quote
  THEN IF s.token # <<>>
       THEN [s EXCEPT !.tokens = Append(@, s.token), !.token = <<>>]
       ELSE s
  ELSE [s EXCEPT !.token = Append(@, c)]

\* ScanChar without the token.empty() test: whitespace always ends a token
ScanCharPushesEmpty(s, c) ==
  IF s.escape_next
  THEN [s EXCEPT !.token = Append(@, c), !.escape_next = FALSE]
  ELSE IF c = BS
  THEN [s EXCEPT !.escape_next = TRUE]
  ELSE IF c = DQ /\ ~s.in_single_quote
  THEN [s EXCEPT !.in_quote = ~@]
  ELSE IF c = SQ /\ ~s.in_quote
  THEN [s EXCEPT !.in_single_quote = ~@]
  ELSE IF IsSpace(c) /\ ~s.in_quote /\ ~s.in_single_quote
  THEN [s EXCEPT !.tokens = Append(@, s.token), !.token = <<>>]
  ELSE [s EXCEPT !.token = Append(@, c)]

\* one iteration of the loop over the characters of the line
ScanChar(s, c) ==
  IF s.escape_next
  THEN [s EXCEPT !.token = Append(@, c), !.escape_next = FALSE]
  ELSE IF c = BS
  THEN [s EXCEPT !.escape_next = TRUE]
  ELSE IF c = DQ /\ ~s.in_single_quote
  THEN [s EXCEPT !.in_quote = ~@]
  ELSE IF c = SQ /\ ~s.in_quote
  THEN [s EXCEPT !.in_single_quote = ~@]
  ELSE IF IsSpace(c) /\ ~s.in_quote /\ ~s.in_single_quote
  THEN IF s.token # <<>>
       THEN [s EXCEPT !.tokens = Append(@, s.token), !.token = <<>>]
       ELSE s
  ELSE [s EXCEPT !.token = Append(@, c)]

RECURSIVE Scan(_, _, _)
Scan(line, k, s) ==
  IF k > Len(line) THEN s ELSE Scan(line, k + 1, ScanChar(s, line[k]))

\* lines 166-206: the tokens before wildcard expansion
Tokenize(line) ==
  LET s == Scan(line, 1, ScanStart)
  IN  IF s.token # <<>> THEN Append(s.tokens, s.token) ELSE s.tokens

\* ---------------------------------------------------------- expand_wildcards
STAR == "*"
DOT == "."
SLASH == "/"

\* pattern.rfind('/'): the last position of ch in str, 0 for npos
RFind(str, ch) ==
  IF \E k \in 1..Len(str) : str[k] = ch
  THEN CHOOSE k \in 1..Len(str) : str[k] = ch /\ \A m \in (k + 1)..Len(str) : str[m] # ch
  ELSE 0

DirPath(pat) ==
  IF RFind(pat, SLASH) # 0 THEN SubSeq(pat, 1, RFind(pat, SLASH) - 1) ELSE <<DOT>>
FilePattern(pat) ==
  IF RFind(pat, SLASH) # 0 THEN SubSeq(pat, RFind(pat, SLASH) + 1, Len(pat)) ELSE pat

\* the inner while of line 259: the first position from np on (0-based) that
\* holds ch, the size of the name if there is none
RECURSIVE SkipTo(_, _, _)
SkipTo(fn, np, ch) ==
  IF np < Len(fn) /\ fn[np + 1] # ch THEN SkipTo(fn, np + 1, ch) ELSE np

\* the while of lines 251-270, positions 0-based as in the code
RECURSIVE MatchLoop(_, _, _, _)
MatchLoop(fp, fn, pp, np) ==
  IF pp < Len(fp) /\ np < Len(fn)
  THEN IF fp[pp + 1] = STAR
       THEN IF pp = Len(fp) - 1
            THEN [match |-> TRUE, pp |-> pp, np |-> Len(fn)]
            ELSE MatchLoop(fp, fn, pp + 1, SkipTo(fn, np, fp[pp + 2]))
       ELSE IF fp[pp + 1] = fn[np + 1]
            THEN MatchLoop(fp, fn, pp + 1, np + 1)
            ELSE [match |-> FALSE, pp |-> pp, np |-> np]
  ELSE [match |-> TRUE, pp |-> pp, np |-> np]

\* line 272
GlobMatches(fp, fn) ==
  LET r == MatchLoop(fp, fn, 0, 0)
  IN  r.match /\ r.pp = Len(fp) /\ r.np = Len(fn)

\* lines 243-245: the entry is skipped as hidden
SkippedAsHidden(fp, fn) == (fp = <<>> \/ fp[1] # DOT) /\ fn[1] = DOT

\* lines 273-275
FullPath(dir, fn) == IF dir # <<DOT>> THEN dir \o <<SLASH>> \o fn ELSE fn

\* ReadDirLoop that puts the pattern in front of the matches it finds
RECURSIVE ReadDirLoopKeepsPattern(_, _, _, _)
ReadDirLoopKeepsPattern(pat, ents, k, acc) ==
  IF k > Len(ents) THEN acc
  ELSE LET fn == ents[k]
           start == IF k = 1 THEN <<pat>> ELSE acc
       IN  IF ~SkippedAsHidden(FilePattern(pat), fn) /\ GlobMatches(FilePattern(pat), fn)
           THEN ReadDirLoopKeepsPattern(pat, ents, k + 1, Append(start, FullPath(DirPath(pat), fn)))
           ELSE ReadDirLoopKeepsPattern(pat, ents, k + 1, acc)

\* the while over readdir() of lines 240-278
RECURSIVE ReadDirLoop(_, _, _, _)
ReadDirLoop(pat, ents, k, acc) ==
  IF k > Len(ents) THEN acc
  ELSE LET fn == ents[k]
       IN  IF ~SkippedAsHidden(FilePattern(pat), fn) /\ GlobMatches(FilePattern(pat), fn)
           THEN ReadDirLoop(pat, ents, k + 1, Append(acc, FullPath(DirPath(pat), fn)))
           ELSE ReadDirLoop(pat, ents, k + 1, acc)

\* opendir(dir_path): no directory has the empty path
OpenDir(dir, ok) == ok /\ dir # <<>>

ExpandWildcards(pat, ok, ents) ==
  IF ~OpenDir(DirPath(pat), ok) THEN <<pat>>
  ELSE LET found == ReadDirLoop(pat, ents, 1, <<>>)
       IN  IF found = <<>> THEN <<pat>> ELSE found

\* ------------------------------------------------------------------- state
VARIABLES
  pc,             \* where the shell process (the parent) is
  args,           \* execute_command's parameter: the tokens of the line
  background, cmd_args, input_file, output_file, append, pipe_commands,
  i,              \* the loop index of execute_pipeline's current loop
  parentFds,      \* the pipe endpoints open in the parent
  pids,           \* execute_pipeline's vector of created children
  procs,          \* every child process created so far
  bufs,           \* bufs[k + 1]: the bytes in flight in pipe k
  extIn,          \* what the terminal (or the input file) has still to supply
  ttyOut,         \* what children wrote to the shell's own standard output
  fileOut,        \* what children wrote to a redirected output file
  shellOut,       \* what the parent printed on cout
  err,            \* what the parent printed on cerr
  ret,            \* execute_command's return value
  input,          \* parse_command's parameter: the raw line
  tokens,         \* parse_command's tokens
  pattern,        \* expand_wildcards' parameter
  matches,        \* expand_wildcards' result
  dirents,        \* the names readdir() returns, in the order it returns them
  dirOk,          \* whether opendir() succeeds
  cwd,            \* the working directory of the shell process
  home,           \* the environment's HOME (<<>>: not set)
  oldpwd,         \* the environment's OLDPWD (<<>>: not set)
  nread,          \* how many lines main has read
  cause           \* why the shell process ended ("none": it is running)

vars == <<pc, args, background, cmd_args, input_file, output_file, append,
          pipe_commands, i, parentFds, pids, procs, bufs, extIn, ttyOut,
          fileOut, shellOut, err, ret, input, tokens,
          pattern, matches, dirents, dirOk, cwd, home, oldpwd, nread, cause>>

parseVars == <<args, background, cmd_args, input_file, output_file, append, pipe_commands>>
tokVars == <<input, tokens>>
ioVars == <<bufs, extIn, ttyOut, fileOut>>
globVars == <<pattern, matches, dirents, dirOk>>
envVars == <<cwd, home, oldpwd, nread, cause>>

\* directories, as the tokens that name them
DirStart == <<"/", "s">>
DirHome == <<"/", "h">>
DirA == <<"/", "a">>
DirB == <<"/", "b">>
DirNone == <<"/", "x">>      \* names no directory: chdir() to it fails
Dirs == {DirStart, DirHome, DirA, DirB}

Data == [k \in 1..MaxData |-> k]

\* ----------------------------------------------------- streams, descriptors
Tty == [t |-> "tty", p |-> 0, path |-> EmptyStr, mode |-> ""]
PipeRead(k) == [t |-> "pipe", p |-> k, path |-> EmptyStr, mode |-> "r"]
PipeWrite(k) == [t |-> "pipe", p |-> k, path |-> EmptyStr, mode |-> "w"]
File(path, mode) == [t |-> "file", p |-> 0, path |-> path, mode |-> mode]

\* pipefds[j], j = 0 .. 2 * (num_commands - 1) - 1
PipeFd(j) == IF j % 2 = 0 THEN PipeRead(j \div 2) ELSE PipeWrite(j \div 2)
AllPipeFds(n) == {PipeFd(j) : j \in 0..(2 * (n - 1) - 1)}

Alive(c) == procs[c].st # "exited"
Holds(c, fd) ==
  /\ Alive(c)
  /\ \/ fd \in procs[c].fds
     \/ procs[c].stdin = fd
     \/ procs[c].stdout = fd

\* the number of processes that have the end of pipe k open
Writers(k) ==
  Cardinality({c \in 1..Len(procs) : Holds(c, PipeWrite(k))})
    + (IF PipeWrite(k) \in parentFds THEN 1 ELSE 0)
Readers(k) ==
  Cardinality({c \in 1..Len(procs) : Holds(c, PipeRead(k))})
    + (IF PipeRead(k) \in parentFds THEN 1 ELSE 0)

InitShell ==
  /\ pc = "prompt"
  /\ args = <<>>
  /\ background = FALSE
  /\ cmd_args = <<>>
  /\ input_file = EmptyStr
  /\ output_file = EmptyStr
  /\ append = FALSE
  /\ pipe_commands = <<>>
  /\ i = 0
  /\ parentFds = {}
  /\ pids = <<>>
  /\ procs = <<>>
  /\ bufs = <<>>
  /\ extIn = Data
  /\ ttyOut = <<>>
  /\ fileOut = <<>>
  /\ shellOut = <<>>
  /\ err = <<>>
  /\ ret = "none"
  /\ tokens = <<>>

InitGlobIdle ==
  /\ pattern = <<>>
  /\ matches = <<>>
  /\ dirents = <<>>
  /\ dirOk = TRUE

InitEnvIdle ==
  /\ cwd = DirStart
  /\ home = DirHome
  /\ oldpwd = EmptyStr
  /\ nread = 0
  /\ cause = "none"

Init ==
  /\ InitShell
  /\ input = <<>>
  /\ InitGlobIdle
  /\ InitEnvIdle

\* ------------------------------------------------------------- input lines
\* a well-formed pipeline of n stages: a [< f] | a ... | a [> f | >> f] [&]
RECURSIVE MoreStages(_)
MoreStages(n) == IF n <= 1 THEN <<>> ELSE <<PIPE, WordA>> \o MoreStages(n - 1)

PipelineLines ==
  {<<WordA>> \o inr \o MoreStages(n) \o outr \o bg :
     n \in 2..MaxStages,
     inr \in {<<>>, <<LT, WordF>>},
     outr \in {<<>>, <<GT, WordF>>, <<GTGT, WordF>>},
     bg \in {<<>>, <<AMP>>}}

\* main calls execute_command with a non-empty token sequence
Lines == (SeqsUpTo(Tokens, MaxTokens) \ {<<>>}) \cup PipelineLines

\* -------------------------------------------------------- execute_command
\* lines 512-581: strip "&", extract the redirections, split on "|", dispatch
ParseInto(line) ==
  LET sb == StripBackground(line)
      ex == ExtractRedirections(sb.cmd_args)
  IN  /\ args' = line
      /\ background' = sb.background
      /\ cmd_args' = ex.cmd_args
      /\ input_file' = ex.input_file
      /\ output_file' = ex.output_file
      /\ append' = ex.append
      /\ pipe_commands' = IF ex.err = "" THEN SplitPipeline(ex.cmd_args) ELSE <<>>
      /\ err' = IF ex.err = "" THEN err ELSE Append(err, ex.err)

Dispatch(line) ==
  LET ex == ExtractRedirections(StripBackground(line).cmd_args)
      cmds == SplitPipeline(ex.cmd_args)
  IN  IF ex.err # "" THEN "returned"
      ELSE IF Len(cmds) > 1 THEN "pipe_loop"
      ELSE IF ex.input_file # EmptyStr \/ ex.output_file # EmptyStr THEN "redir_fork"
      ELSE "fork"

ExecuteCommand ==
  /\ pc = "prompt"
  /\ \E line \in Lines :
       /\ ParseInto(line)
       /\ pc' = Dispatch(line)
       /\ ret' = IF Dispatch(line) = "returned" THEN "-1" ELSE ret
  /\ UNCHANGED <<i, parentFds, pids, procs, shellOut>>
  /\ UNCHANGED ioVars
  /\ UNCHANGED tokVars
  /\ UNCHANGED <<globVars, envVars>>

\* a new child: a copy of the parent's descriptors, not yet past its setup
NewChild(kind, stage, argv) ==
  [kind |-> kind, stage |-> stage, argv |-> argv, st |-> "forked",
   stdin |-> Tty, stdout |-> Tty, fds |-> parentFds,
   status |-> "none", reaped |-> FALSE]

\* lines 583-609, fork() > 0
Fork ==
  /\ pc = "fork"
  /\ procs' = Append(procs, NewChild("plain", 0, cmd_args))
  /\ IF background
     THEN /\ shellOut' = Append(shellOut, "[pid]")
          /\ ret' = "0"
          /\ pc' = "returned"
     ELSE /\ pc' = "waitpid"
          /\ UNCHANGED <<shellOut, ret>>
  /\ UNCHANGED <<i, parentFds, pids, err>>
  /\ UNCHANGED parseVars
  /\ UNCHANGED ioVars
  /\ UNCHANGED tokVars
  /\ UNCHANGED <<globVars, envVars>>

\* lines 596-598, fork() < 0
ForkFail ==
  /\ pc = "fork"
  /\ err' = Append(err, "fork")
  /\ ret' = "-1"
  /\ pc' = "returned"
  /\ UNCHANGED <<i, parentFds, pids, procs, shellOut>>
  /\ UNCHANGED parseVars
  /\ UNCHANGED ioVars
  /\ UNCHANGED tokVars
  /\ UNCHANGED <<globVars, envVars>>

\* lines 601-604: waitpid(pid, &status, 0); reset_terminal(); return status
WaitPid ==
  /\ pc = "waitpid"
  /\ LET c == Len(procs)
     IN  /\ procs[c].st = "exited"
         /\ procs' = [procs EXCEPT ![c].reaped = TRUE]
         /\ ret' = procs[c].status
  /\ shellOut' = Append(shellOut, "reset")
  /\ pc' = "returned"
  /\ UNCHANGED <<i, parentFds, pids, err>>
  /\ UNCHANGED parseVars
  /\ UNCHANGED ioVars
  /\ UNCHANGED tokVars
  /\ UNCHANGED <<globVars, envVars>>

\* ---------------------------------------------------- execute_redirection
\* line 614, fork() > 0: the parent goes on to wait, whatever background is
RedirFork ==
  /\ pc = "redir_fork"
  /\ procs' = Append(procs, NewChild("redir", 0, cmd_args))
  /\ pc' = "redir_wait"
  /\ UNCHANGED <<i, parentFds, pids, shellOut, err, ret>>
  /\ UNCHANGED parseVars
  /\ UNCHANGED ioVars
  /\ UNCHANGED tokVars
  /\ UNCHANGED <<globVars, envVars>>

\* lines 654-655, then execute_command returns 0 (line 580)
RedirForkFail ==
  /\ pc = "redir_fork"
  /\ err' = Append(err, "fork")
  /\ ret' = "0"
  /\ pc' = "returned"
  /\ UNCHANGED <<i, parentFds, pids, procs, shellOut>>
  /\ UNCHANGED parseVars
  /\ UNCHANGED ioVars
  /\ UNCHANGED tokVars
  /\ UNCHANGED <<globVars, envVars>>

\* lines 657-659, then execute_command returns 0 (line 580)
RedirWait ==
  /\ pc = "redir_wait"
  /\ LET c == Len(procs)
     IN  /\ procs[c].st = "exited"
         /\ procs' = [procs EXCEPT ![c].reaped = TRUE]
  /\ shellOut' = Append(shellOut, "reset")
  /\ ret' = "0"
  /\ pc' = "returned"
  /\ UNCHANGED <<i, parentFds, pids, err>>
  /\ UNCHANGED parseVars
  /\ UNCHANGED ioVars
  /\ UNCHANGED tokVars
  /\ UNCHANGED <<globVars, envVars>>

\* ------------------------------------------------------- execute_pipeline
num_commands == Len(pipe_commands)

\* lines 669-674, pipe() succeeds
PipeCreate ==
  /\ pc = "pipe_loop"
  /\ i < num_commands - 1
  /\ parentFds' = parentFds \cup {PipeFd(i * 2), PipeFd(i * 2 + 1)}
  /\ bufs' = Append(bufs, <<>>)
  /\ IF i + 1 < num_commands - 1
     THEN /\ i' = i + 1
          /\ pc' = pc
     ELSE /\ i' = 0
          /\ pc' = "fork_loop"
  /\ UNCHANGED <<pids, procs, extIn, ttyOut, fileOut, shellOut, err, ret>>
  /\ UNCHANGED parseVars
  /\ UNCHANGED tokVars
  /\ UNCHANGED <<globVars, envVars>>

\* lines 670-673, pipe() < 0: perror and return; execute_command returns 0
PipeFail ==
  /\ pc = "pipe_loop"
  /\ i < num_commands - 1
  /\ err' = Append(err, "pipe")
  /\ ret' = "0"
  /\ pc' = "returned"
  /\ UNCHANGED <<i, parentFds, pids, procs, shellOut>>
  /\ UNCHANGED parseVars
  /\ UNCHANGED ioVars
  /\ UNCHANGED tokVars
  /\ UNCHANGED <<globVars, envVars>>

\* lines 678-710, fork() > 0
ForkStage ==
  /\ pc = "fork_loop"
  /\ i < num_commands
  /\ procs' = Append(procs, NewChild("pipeline", i, pipe_commands[i + 1]))
  /\ pids' = Append(pids, Len(procs) + 1)
  /\ i' = i + 1
  /\ pc' = IF i + 1 < num_commands THEN pc ELSE "close_loop"
  /\ UNCHANGED <<parentFds, shellOut, err, ret>>
  /\ UNCHANGED parseVars
  /\ UNCHANGED ioVars
  /\ UNCHANGED tokVars
  /\ UNCHANGED <<globVars, envVars>>

\* lines 704-707, fork() < 0: perror and return; execute_command returns 0
ForkStageFail ==
  /\ pc = "fork_loop"
  /\ i < num_commands
  /\ err' = Append(err, "fork")
  /\ ret' = "0"
  /\ pc' = "returned"
  /\ UNCHANGED <<i, parentFds, pids, procs, shellOut>>
  /\ UNCHANGED parseVars
  /\ UNCHANGED ioVars
  /\ UNCHANGED tokVars
  /\ UNCHANGED <<globVars, envVars>>

\* ClosePipes that goes on to wait with the parent's pipe endpoints still open
ClosePipesKeepsOpen ==
  /\ pc = "close_loop"
  /\ parentFds' = parentFds
  /\ i' = 1
  /\ pc' = "wait_loop"
  /\ UNCHANGED <<pids, procs, shellOut, err, ret>>
  /\ UNCHANGED parseVars
  /\ UNCHANGED ioVars
  /\ UNCHANGED tokVars
  /\ UNCHANGED <<globVars, envVars>>

\* lines 712-714: the parent closes every pipefds[j]
ClosePipes ==
  /\ pc = "close_loop"
  /\ parentFds' = parentFds \ AllPipeFds(num_commands)
  /\ i' = 1
  /\ pc' = "wait_loop"
  /\ UNCHANGED <<pids, procs, shellOut, err, ret>>
  /\ UNCHANGED parseVars
  /\ UNCHANGED ioVars
  /\ UNCHANGED tokVars
  /\ UNCHANGED <<globVars, envVars>>

\* lines 716-719: waitpid for each pid in turn, then reset_terminal();
\* execute_command returns 0 (line 575)
WaitStage ==
  /\ pc = "wait_loop"
  /\ i <= Len(pids)
  /\ procs[pids[i]].st = "exited"
  /\ procs' = [procs EXCEPT ![pids[i]].reaped = TRUE]
  /\ IF i < Len(pids)
     THEN /\ i' = i + 1
          /\ UNCHANGED <<pc, shellOut, ret>>
     ELSE /\ i' = i
          /\ shellOut' = Append(shellOut, "reset")
          /\ ret' = "0"
          /\ pc' = "returned"
  /\ UNCHANGED <<parentFds, pids, err>>
  /\ UNCHANGED parseVars
  /\ UNCHANGED ioVars
  /\ UNCHANGED tokVars
  /\ UNCHANGED <<globVars, envVars>>

\* ------------------------------------------------------------ the children
\* exit, or death by a signal: the kernel closes every descriptor
Terminated(c, status) ==
  [procs[c] EXCEPT !.st = "exited", !.status = status, !.fds = {}]

\* execvp(argv[0], ...): argv[0] is the null pointer when the vector is
\* empty, and the call then fails or the child dies in the C library
ExecOutcomes(argv) ==
  IF argv = <<>> THEN {"EXIT_FAILURE", "SIGSEGV"} ELSE {"running", "EXIT_FAILURE"}

AfterExec(child, outcome) ==
  IF outcome = "running" THEN child
  ELSE [child EXCEPT !.st = "exited", !.status = outcome, !.fds = {}]

\* lines 585-595: the child of execute_command
ChildExecPlain(c) ==
  /\ procs[c].st = "forked"
  /\ procs[c].kind = "plain"
  /\ \E outcome \in ExecOutcomes(procs[c].argv) :
       procs' = [procs EXCEPT ![c] = AfterExec([procs[c] EXCEPT !.st = "running"], outcome)]
  /\ UNCHANGED <<pc, i, parentFds, pids, shellOut, err, ret>>
  /\ UNCHANGED parseVars
  /\ UNCHANGED ioVars
  /\ UNCHANGED tokVars
  /\ UNCHANGED <<globVars, envVars>>

\* lines 616-653: the child of execute_redirection; open() may fail
RedirStdin == IF input_file # EmptyStr THEN File(input_file, "r") ELSE Tty
RedirStdout ==
  IF output_file # EmptyStr
  THEN File(output_file, IF append THEN "append" ELSE "trunc")
  ELSE Tty

ChildExecRedir(c) ==
  /\ procs[c].st = "forked"
  /\ procs[c].kind = "redir"
  /\ \/ /\ input_file # EmptyStr
        /\ procs' = [procs EXCEPT ![c] = Terminated(c, "EXIT_FAILURE")]
     \/ /\ output_file # EmptyStr
        /\ procs' = [procs EXCEPT ![c] =
                       [Terminated(c, "EXIT_FAILURE") EXCEPT !.stdin = RedirStdin]]
     \/ \E outcome \in ExecOutcomes(procs[c].argv) :
          procs' = [procs EXCEPT ![c] =
                      AfterExec([procs[c] EXCEPT !.st = "running",
                                                 !.stdin = RedirStdin,
                                                 !.stdout = RedirStdout], outcome)]
  /\ UNCHANGED <<pc, i, parentFds, pids, shellOut, err, ret>>
  /\ UNCHANGED parseVars
  /\ UNCHANGED ioVars
  /\ UNCHANGED tokVars
  /\ UNCHANGED <<globVars, envVars>>

\* lines 681-703: the child of execute_pipeline
\* StageStdin with the write end of the upstream pipe in place of its read end
StageStdinWriteEnd(stage, old) == IF stage # 0 THEN PipeFd((stage - 1) * 2 + 1) ELSE old
StageStdin(stage, old) == IF stage # 0 THEN PipeFd((stage - 1) * 2) ELSE old
StageStdout(stage, n, old) == IF stage # n - 1 THEN PipeFd(stage * 2 + 1) ELSE old
StageClosed(n) == AllPipeFds(n)

ChildExecStage(c) ==
  /\ procs[c].st = "forked"
  /\ procs[c].kind = "pipeline"
  /\ \E outcome \in ExecOutcomes(procs[c].argv) :
       procs' = [procs EXCEPT ![c] =
                   AfterExec([procs[c] EXCEPT
                                !.st = "running",
                                !.stdin = StageStdin(procs[c].stage, @),
                                !.stdout = StageStdout(procs[c].stage, num_commands, @),
                                !.fds = @ \ StageClosed(num_commands)], outcome)]
  /\ UNCHANGED <<pc, i, parentFds, pids, shellOut, err, ret>>
  /\ UNCHANGED parseVars
  /\ UNCHANGED ioVars
  /\ UNCHANGED tokVars
  /\ UNCHANGED <<globVars, envVars>>

\* the program image that execvp started, taken to be a pass-through filter:
\* it copies its standard input to its standard output until end-of-file
External(fd) == fd.t \in {"tty", "file"}

CanRead(c) ==
  IF External(procs[c].stdin) THEN extIn # <<>>
  ELSE bufs[procs[c].stdin.p + 1] # <<>>

AtEof(c) ==
  IF External(procs[c].stdin) THEN extIn = <<>>
  ELSE bufs[procs[c].stdin.p + 1] = <<>> /\ Writers(procs[c].stdin.p) = 0

NextItem(c) ==
  IF External(procs[c].stdin) THEN Head(extIn) ELSE Head(bufs[procs[c].stdin.p + 1])

ChildCopy(c) ==
  /\ procs[c].st = "running"
  /\ CanRead(c)
  /\ LET item == NextItem(c)
         src == procs[c].stdin
         dst == procs[c].stdout
         taken == IF External(src) THEN bufs
                  ELSE [bufs EXCEPT ![src.p + 1] = Tail(@)]
     IN  /\ extIn' = IF External(src) THEN Tail(extIn) ELSE extIn
         /\ IF dst.t = "pipe"
            THEN IF Readers(dst.p) = 0
                 THEN /\ procs' = [procs EXCEPT ![c] = Terminated(c, "SIGPIPE")]
                      /\ bufs' = taken
                 ELSE /\ bufs' = [taken EXCEPT ![dst.p + 1] = Append(@, item)]
                      /\ UNCHANGED procs
            ELSE /\ bufs' = taken
                 /\ UNCHANGED procs
         /\ ttyOut' = IF dst.t = "tty" THEN Append(ttyOut, item) ELSE ttyOut
         /\ fileOut' = IF dst.t = "file" THEN Append(fileOut, item) ELSE fileOut
  /\ UNCHANGED <<pc, i, parentFds, pids, shellOut, err, ret>>
  /\ UNCHANGED parseVars
  /\ UNCHANGED tokVars
  /\ UNCHANGED <<globVars, envVars>>

ChildExit(c) ==
  /\ procs[c].st = "running"
  /\ AtEof(c)
  /\ procs' = [procs EXCEPT ![c] = Terminated(c, "0")]
  /\ UNCHANGED <<pc, i, parentFds, pids, shellOut, err, ret>>
  /\ UNCHANGED parseVars
  /\ UNCHANGED ioVars
  /\ UNCHANGED tokVars
  /\ UNCHANGED <<globVars, envVars>>

Child ==
  \E c \in 1..Len(procs) :
    \/ ChildExecPlain(c)
    \/ ChildExecRedir(c)
    \/ ChildExecStage(c)
    \/ ChildCopy(c)
    \/ ChildExit(c)

Next ==
  \/ ExecuteCommand
  \/ Fork
  \/ ForkFail
  \/ WaitPid
  \/ RedirFork
  \/ RedirForkFail
  \/ RedirWait
  \/ PipeCreate
  \/ PipeFail
  \/ ForkStage
  \/ ForkStageFail
  \/ ClosePipes
  \/ WaitStage
  \/ Child

Spec == Init /\ [][Next]_vars

\* ------------------------------------------------------ the tokenizer alone
\* main skips an empty line (line 765) and hands every other to parse_command
RawLines == SeqsUpTo(Chars, MaxLineLen) \ {<<>>}

InitTok ==
  /\ InitShell
  /\ input \in RawLines
  /\ InitGlobIdle
  /\ InitEnvIdle

\* line 784, args = parse_command(input): no line of RawLines holds a "*",
\* so the expansion loop of lines 209-217 copies every token
ParseCommand ==
  /\ pc = "prompt"
  /\ tokens' = Tokenize(input)
  /\ args' = Tokenize(input)
  /\ pc' = "tokenized"
  /\ UNCHANGED <<background, cmd_args, input_file, output_file, append, pipe_commands,
                 i, parentFds, pids, procs, shellOut, err, ret, input>>
  /\ UNCHANGED ioVars
  /\ UNCHANGED <<globVars, envVars>>

NextTok == ParseCommand
SpecTok == InitTok /\ [][NextTok]_vars

\* ------------------------------------------------- expand_wildcards alone
GlobChars == {"a", "b", STAR, DOT, SLASH}
NameChars == {"a", "b", STAR, DOT}

\* parse_command calls expand_wildcards for the tokens that hold a "*"
Patterns == {pat \in SeqsUpTo(GlobChars, MaxPatLen) : STAR \in {pat[k] : k \in DOMAIN pat}}
Names == SeqsUpTo(NameChars, MaxNameLen) \ {<<>>}

\* readdir() returns every entry once, in an order of its own
Listings ==
  {l \in SeqsUpTo(Names, MaxEntries) : \A m, n \in DOMAIN l : m # n => l[m] # l[n]}

InitGlob ==
  /\ InitShell
  /\ input = <<>>
  /\ InitEnvIdle
  /\ pattern \in Patterns
  /\ dirents \in Listings
  /\ dirOk \in BOOLEAN
  /\ matches = <<>>

\* line 212: expanded = expand_wildcards(token)
ExpandCall ==
  /\ pc = "prompt"
  /\ matches' = ExpandWildcards(pattern, dirOk, dirents)
  /\ pc' = "expanded"
  /\ UNCHANGED <<i, parentFds, pids, procs, shellOut, err, ret>>
  /\ UNCHANGED <<pattern, dirents, dirOk>>
  /\ UNCHANGED parseVars
  /\ UNCHANGED ioVars
  /\ UNCHANGED tokVars
  /\ UNCHANGED envVars

NextGlob == ExpandCall
SpecGlob == InitGlob /\ [][NextGlob]_vars

\* ------------------------------------------------- main: the builtins
WordCd == <<"c", "d">>
WordHelp == <<"h", "e", "l", "p">>
WordExit == <<"e", "x", "i", "t">>
WordHistory == <<"h", "i", "s", "t", "o", "r", "y">>
WordPwd == <<"p", "w", "d">>
WordLs == <<"l", "s">>
WordAlias == <<"a", "l", "i", "a", "s">>
Dash == <<"-">>

builtins == {WordCd, WordHelp, WordExit, WordHistory, WordPwd, WordLs, WordAlias}
is_builtin(cmd) == cmd \in builtins

\* std::stoi on a token: an optional sign, then the longest run of digits;
\* no digit throws invalid_argument, a value no int holds throws out_of_range
DigitChars == <<"0", "1", "2", "3", "4", "5", "6", "7", "8", "9">>
IsDigit(c) == \E k \in 1..Len(DigitChars) : DigitChars[k] = c
DigitVal(c) == (CHOOSE k \in 1..Len(DigitChars) : DigitChars[k] = c) - 1
IntMax == (2 ^ 30 - 1) + 2 ^ 30

\* the value of the digits from position k on, -1 when it exceeds IntMax
RECURSIVE StoiDigits(_, _, _)
StoiDigits(str, k, acc) ==
  IF k > Len(str) \/ ~IsDigit(str[k]) THEN acc
  ELSE IF acc > (IntMax - DigitVal(str[k])) \div 10 THEN -1
  ELSE StoiDigits(str, k + 1, acc * 10 + DigitVal(str[k]))

Stoi(str) ==
  LET signed == str # <<>> /\ str[1] \in {"-", "+"}
      first == IF signed THEN 2 ELSE 1
      mag == StoiDigits(str, first, 0)
  IN  IF first > Len(str) \/ ~IsDigit(str[first])
      THEN [exc |-> "invalid_argument", val |-> 0]
      ELSE IF mag = -1
      THEN [exc |-> "out_of_range", val |-> 0]
      ELSE [exc |-> "", val |-> IF signed /\ str[1] = "-" THEN -mag ELSE mag]

NumOne == <<"1">>
NumNegative == <<"-", "1">>
NumHuge == <<"9", "9", "9", "9", "9", "9", "9", "9", "9", "9">>

\* chdir(path) succeeds for the directories that exist
ChdirOk(path) == path \in Dirs

\* what parse_command hands to main for the lines that are read
MainLines ==
  {<<>>, <<WordCd>>, <<WordCd, Dash>>, <<WordCd, DirA>>, <<WordCd, DirB>>,
   <<WordCd, DirNone>>, <<WordCd, DirA, DirB>>, <<WordCd, DirA, PIPE, WordA>>,
   <<WordExit>>, <<WordPwd>>,
   <<WordHistory>>, <<WordHistory, NumOne>>, <<WordHistory, NumNegative>>,
   <<WordHistory, WordA>>, <<WordHistory, NumHuge>>,
   <<WordA>>, <<WordA, AMP>>, <<WordA, GT, WordF>>, <<WordA, LT>>,
   <<WordA, PIPE, WordA>>, <<WordA, PIPE, WordCd>>}

\* the variables execute_command and its children work on, as they are when
\* main calls parse_command for the next line
FreshCommand ==
  /\ background' = FALSE
  /\ cmd_args' = <<>>
  /\ input_file' = EmptyStr
  /\ output_file' = EmptyStr
  /\ append' = FALSE
  /\ pipe_commands' = <<>>
  /\ i' = 0
  /\ parentFds' = {}
  /\ pids' = <<>>
  /\ procs' = <<>>
  /\ bufs' = <<>>
  /\ extIn' = Data
  /\ ttyOut' = <<>>
  /\ fileOut' = <<>>
  /\ shellOut' = <<>>
  /\ err' = <<>>
  /\ ret' = "none"

\* lines 754-759: readline returns null; handle_exit ends the process
ReadEof ==
  /\ pc = "prompt"
  /\ cause' = "eof"
  /\ pc' = "terminated"
  /\ shellOut' = Append(shellOut, "Goodbye!")
  /\ UNCHANGED <<i, parentFds, pids, procs, err, ret, cwd, home, oldpwd, nread>>
  /\ UNCHANGED parseVars
  /\ UNCHANGED ioVars
  /\ UNCHANGED tokVars
  /\ UNCHANGED globVars

\* lines 761-789: a line is read and parse_command returns no token
ReadEmpty ==
  /\ pc = "prompt"
  /\ nread < MaxCommands
  /\ <<>> \in MainLines
  /\ nread' = nread + 1
  /\ args' = <<>>
  /\ UNCHANGED <<pc, background, cmd_args, input_file, output_file, append, pipe_commands>>
  /\ UNCHANGED <<i, parentFds, pids, procs, shellOut, err, ret, cwd, home, oldpwd, cause>>
  /\ UNCHANGED ioVars
  /\ UNCHANGED tokVars
  /\ UNCHANGED globVars

\* lines 761-793: is_builtin(args[0]) holds and execute_builtin is called
ReadBuiltin ==
  /\ pc = "prompt"
  /\ nread < MaxCommands
  /\ \E line \in MainLines :
       /\ line # <<>>
       /\ is_builtin(line[1])
       /\ args' = line
  /\ nread' = nread + 1
  /\ pc' = "builtin"
  /\ UNCHANGED <<background, cmd_args, input_file, output_file, append, pipe_commands>>
  /\ UNCHANGED <<i, parentFds, pids, procs, shellOut, err, ret, cwd, home, oldpwd, cause>>
  /\ UNCHANGED ioVars
  /\ UNCHANGED tokVars
  /\ UNCHANGED globVars

\* lines 761-802: is_builtin(args[0]) fails and execute_command is called
ReadExternal ==
  /\ pc = "prompt"
  /\ nread < MaxCommands
  /\ \E line \in MainLines :
       /\ line # <<>>
       /\ ~is_builtin(line[1])
       /\ ParseInto(line)
       /\ pc' = Dispatch(line)
       /\ ret' = IF Dispatch(line) = "returned" THEN "-1" ELSE ret
  /\ nread' = nread + 1
  /\ UNCHANGED <<i, parentFds, pids, procs, shellOut, cwd, home, oldpwd, cause>>
  /\ UNCHANGED ioVars
  /\ UNCHANGED tokVars
  /\ UNCHANGED globVars

\* line 802 and back to line 752: execute_command has returned, its locals
\* are gone; children it left behind take no part in the next command
MainContinue ==
  /\ pc = "returned"
  /\ pc' = "prompt"
  /\ FreshCommand
  /\ UNCHANGED args
  /\ UNCHANGED tokVars
  /\ UNCHANGED <<globVars, envVars>>

\* handle_cd, then execute_builtin returns 0 and main continues
HandleCd ==
  /\ pc = "builtin"
  /\ args[1] = WordCd
  /\ IF Len(args) = 1
     THEN /\ cwd' = IF home # EmptyStr /\ ChdirOk(home) THEN home ELSE cwd
          /\ err' = IF home # EmptyStr /\ ~ChdirOk(home) THEN Append(err, "cd") ELSE err
          /\ UNCHANGED <<oldpwd, shellOut>>
     ELSE IF Len(args) = 2
     THEN IF args[2] = Dash
          THEN IF oldpwd # EmptyStr
               THEN /\ shellOut' = Append(shellOut, oldpwd)
                    /\ cwd' = IF ChdirOk(oldpwd) THEN oldpwd ELSE cwd
                    /\ err' = IF ChdirOk(oldpwd) THEN err ELSE Append(err, "cd")
                    /\ UNCHANGED oldpwd
               ELSE /\ err' = Append(err, "cd: OLDPWD not set")
                    /\ UNCHANGED <<cwd, oldpwd, shellOut>>
          ELSE /\ oldpwd' = cwd
               /\ cwd' = IF ChdirOk(args[2]) THEN args[2] ELSE cwd
               /\ err' = IF ChdirOk(args[2]) THEN err ELSE Append(err, "cd")
               /\ UNCHANGED shellOut
     ELSE /\ err' = Append(err, "cd: too many arguments")
          /\ UNCHANGED <<cwd, oldpwd, shellOut>>
  /\ pc' = "prompt"
  /\ UNCHANGED <<i, parentFds, pids, procs, ret, home, nread, cause>>
  /\ UNCHANGED parseVars
  /\ UNCHANGED ioVars
  /\ UNCHANGED tokVars
  /\ UNCHANGED globVars

\* handle_exit: exit(0)
HandleExit ==
  /\ pc = "builtin"
  /\ args[1] = WordExit
  /\ shellOut' = Append(shellOut, "Goodbye!")
  /\ cause' = "exit"
  /\ pc' = "terminated"
  /\ UNCHANGED <<i, parentFds, pids, procs, err, ret, cwd, home, oldpwd, nread>>
  /\ UNCHANGED parseVars
  /\ UNCHANGED ioVars
  /\ UNCHANGED tokVars
  /\ UNCHANGED globVars

\* handle_history: only invalid_argument is caught; out_of_range leaves
\* handle_history, execute_builtin and main, and the process is terminated
HandleHistory ==
  /\ pc = "builtin"
  /\ args[1] = WordHistory
  /\ IF Len(args) > 1
     THEN LET n == Stoi(args[2])
          IN  IF n.exc = "out_of_range"
              THEN /\ cause' = "out_of_range"
                   /\ pc' = "terminated"
                   /\ UNCHANGED shellOut
              ELSE /\ shellOut' =
                        Append(shellOut,
                               IF n.exc = "invalid_argument" THEN "history: numeric argument required"
                               ELSE IF n.val < 0 THEN "history: count must be positive"
                               ELSE "history list")
                   /\ pc' = "prompt"
                   /\ UNCHANGED cause
     ELSE /\ shellOut' = Append(shellOut, "history list")
          /\ pc' = "prompt"
          /\ UNCHANGED cause
  /\ UNCHANGED <<i, parentFds, pids, procs, err, ret, cwd, home, oldpwd, nread>>
  /\ UNCHANGED parseVars
  /\ UNCHANGED ioVars
  /\ UNCHANGED tokVars
  /\ UNCHANGED globVars

\* handle_help, handle_pwd, handle_ls, handle_alias: output only
HandleOther ==
  /\ pc = "builtin"
  /\ args[1] \in {WordHelp, WordPwd, WordLs, WordAlias}
  /\ shellOut' = Append(shellOut, "builtin output")
  /\ pc' = "prompt"
  /\ UNCHANGED <<i, parentFds, pids, procs, err, ret>>
  /\ UNCHANGED parseVars
  /\ UNCHANGED ioVars
  /\ UNCHANGED tokVars
  /\ UNCHANGED <<globVars, envVars>>

NextMain ==
  \/ ReadEof
  \/ ReadEmpty
  \/ ReadBuiltin
  \/ ReadExternal
  \/ MainContinue
  \/ HandleCd
  \/ HandleExit
  \/ HandleHistory
  \/ HandleOther
  \/ Fork
  \/ ForkFail
  \/ WaitPid
  \/ RedirFork
  \/ RedirForkFail
  \/ RedirWait
  \/ PipeCreate
  \/ PipeFail
  \/ ForkStage
  \/ ForkStageFail
  \/ ClosePipes
  \/ WaitStage
  \/ Child

SpecMain == Init /\ [][NextMain]_vars

\* ------------------------------- a line from parse_command to the dispatch
\* ExpandTokens that copies every token, as if no token held a "*"
RECURSIVE ExpandTokensKeepsGlobs(_, _, _)
ExpandTokensKeepsGlobs(toks, ok, ents) ==
  IF toks = <<>> THEN <<>>
  ELSE <<Head(toks)>> \o ExpandTokensKeepsGlobs(Tail(toks), ok, ents)

\* lines 208-219: a token that holds a "*" is replaced by its expansion
RECURSIVE ExpandTokens(_, _, _)
ExpandTokens(toks, ok, ents) ==
  IF toks = <<>> THEN <<>>
  ELSE (IF \E k \in 1..Len(Head(toks)) : Head(toks)[k] = STAR
        THEN ExpandWildcards(Head(toks), ok, ents)
        ELSE <<Head(toks)>>)
       \o ExpandTokens(Tail(toks), ok, ents)

LineChars == {"a", " ", DQ, BS, "|", ">", "&", STAR}
LineInputs == SeqsUpTo(LineChars, MaxRawLen) \ {<<>>}

\* the directory the shell runs in holds the entries a and aa
InitLine ==
  /\ InitShell
  /\ input \in LineInputs
  /\ InitEnvIdle
  /\ pattern = <<>>
  /\ matches = <<>>
  /\ dirents = <<WordA, <<"a", "a">>>>
  /\ dirOk = TRUE

\* lines 753-784: the one line of the behaviour is read, and
\* args = parse_command(input), tokenizer and wildcard expansion
ParseLine ==
  /\ pc = "prompt"
  /\ nread = 0
  /\ nread' = 1
  /\ tokens' = Tokenize(input)
  /\ args' = ExpandTokens(Tokenize(input), dirOk, dirents)
  /\ pc' = "tokenized"
  /\ UNCHANGED <<background, cmd_args, input_file, output_file, append, pipe_commands,
                 i, parentFds, pids, procs, shellOut, err, ret, input>>
  /\ UNCHANGED ioVars
  /\ UNCHANGED <<globVars, cwd, home, oldpwd, cause>>

\* lines 787-789: no token, main reads the next line
SkipNoCommand ==
  /\ pc = "tokenized"
  /\ args = <<>>
  /\ pc' = "prompt"
  /\ UNCHANGED <<i, parentFds, pids, procs, shellOut, err, ret>>
  /\ UNCHANGED parseVars
  /\ UNCHANGED ioVars
  /\ UNCHANGED tokVars
  /\ UNCHANGED <<globVars, envVars>>

\* lines 792-802 and 512-581: no token over LineChars is a builtin name, so
\* execute_command is called; it strips, extracts, splits and chooses its path
ExecuteParsed ==
  /\ pc = "tokenized"
  /\ args # <<>>
  /\ ~is_builtin(args[1])
  /\ ParseInto(args)
  /\ pc' = Dispatch(args)
  /\ ret' = IF Dispatch(args) = "returned" THEN "-1" ELSE ret
  /\ UNCHANGED <<i, parentFds, pids, procs, shellOut>>
  /\ UNCHANGED ioVars
  /\ UNCHANGED tokVars
  /\ UNCHANGED <<globVars, envVars>>

NextLine ==
  \/ ParseLine
  \/ SkipNoCommand
  \/ ExecuteParsed

SpecLine == InitLine /\ [][NextLine]_vars

TypeOK ==
  /\ pc \in {"prompt", "tokenized", "expanded", "fork", "waitpid", "redir_fork", "redir_wait",
             "pipe_loop", "fork_loop", "close_loop", "wait_loop", "returned",
             "builtin", "terminated"}
  /\ background \in BOOLEAN
  /\ append \in BOOLEAN
  /\ ret \in {"none", "-1", "0", "EXIT_FAILURE", "SIGSEGV", "SIGPIPE"}
  /\ Len(bufs) <= MaxStages
  /\ \A c \in 1..Len(procs) : procs[c].st \in {"forked", "running", "exited"}

\* ------------------------------------------------------------- properties
RedirOps == {LT, GT, GTGT}
WaitPcs == {"waitpid", "redir_wait", "wait_loop"}
Stripped == StripBackground(args).cmd_args
Parsed == pc \notin {"prompt", "tokenized", "expanded"}
Range(f) == {f[k] : k \in DOMAIN f}
SyntaxErrors == {"no input file", "no output file"}

\* C1: a line whose last token is a lone "&" never brings the parent to a
\* wait on a child, be it a plain command, a redirection or a pipeline.
C1_BackgroundNeverWaits ==
  (Parsed /\ args[Len(args)] = AMP) => pc \notin WaitPcs

\* C2: when execute_pipeline has returned the parent holds no pipe endpoint,
\* and a child that has replaced its program image holds no pipe endpoint
\* besides its standard input and output.
C2_PipeEndsClosed ==
  /\ pc = "returned" => parentFds = {}
  /\ \A c \in 1..Len(procs) :
       (procs[c].kind = "pipeline" /\ procs[c].st = "running") => procs[c].fds = {}

\* C4: when a foreground pipeline has returned, every child it created has
\* been waited on.
C4_ForegroundPipelineReaped ==
  (pc = "returned" /\ num_commands > 1 /\ ~background)
    => \A c \in 1..Len(procs) : procs[c].reaped

\* C5: in a pipeline with redirections the input path is the first stage's
\* standard input and the output path, with its mode, the last stage's
\* standard output.
C5_PipelineRedirection ==
  \A c \in 1..Len(procs) :
    (procs[c].kind = "pipeline" /\ procs[c].st = "running") =>
      /\ (procs[c].stage = 0 /\ input_file # EmptyStr)
           => procs[c].stdin = File(input_file, "r")
      /\ (procs[c].stage = num_commands - 1 /\ output_file # EmptyStr)
           => procs[c].stdout = File(output_file, IF append THEN "append" ELSE "trunc")

\* the maximal runs of non-"|" tokens of a token sequence
IsMaximalRun(ca, a, b) ==
  /\ 1 <= a /\ a <= b /\ b <= Len(ca)
  /\ \A k \in a..b : ca[k] # PIPE
  /\ a = 1 \/ ca[a - 1] = PIPE
  /\ b = Len(ca) \/ ca[b + 1] = PIPE

\* C7: every argument vector handed to a child is non-empty, holds no "|"
\* and is one maximal run of non-"|" tokens.
C7_ArgvIsOneStage ==
  \A c \in 1..Len(procs) :
    /\ procs[c].argv # <<>>
    /\ PIPE \notin Range(procs[c].argv)
    /\ \E a \in 1..Len(cmd_args), b \in 1..Len(cmd_args) :
         /\ IsMaximalRun(cmd_args, a, b)
         /\ procs[c].argv = SubSeq(cmd_args, a, b)

\* C8: with no stage left after the strip, the extraction and the split,
\* a parse error is reported and no child is created.
C8_NoStageIsParseError ==
  (Parsed /\ ExtractRedirections(Stripped).err = "" /\ pipe_commands = <<>>)
    => (procs = <<>> /\ (pc = "returned" => err # <<>>))

\* ---- C3
RECURSIVE InFlight(_)
InFlight(k) == IF k = 0 THEN <<>> ELSE bufs[k] \o InFlight(k - 1)

AllPassThrough == \A c \in 1..Len(procs) : procs[c].status \in {"none", "0"}
AllStagesDone ==
  /\ Len(procs) = num_commands
  /\ \A c \in 1..Len(procs) : procs[c].status = "0"
ParentClosed ==
  pc = "wait_loop" \/ (pc = "returned" /\ Len(procs) = num_commands)

\* C3: an N-stage pipeline has N-1 pipes; stage i reads pipe i-1 (i > 0) and
\* writes pipe i (i < N-1), the first input and the last output being the
\* shell's own; pass-through stages deliver the data unchanged and in order,
\* and a reader sees end-of-file once its upstream stage has exited.
C3_PipelineWiring ==
  num_commands > 1 =>
    /\ Len(bufs) <= num_commands - 1
    /\ procs # <<>> => Len(bufs) = num_commands - 1
    /\ \A c \in 1..Len(procs) :
         procs[c].st # "forked" =>
           /\ procs[c].stdin =
                (IF procs[c].stage > 0 THEN PipeRead(procs[c].stage - 1) ELSE Tty)
           /\ procs[c].stdout =
                (IF procs[c].stage < num_commands - 1 THEN PipeWrite(procs[c].stage) ELSE Tty)
    /\ AllPassThrough => ttyOut \o InFlight(Len(bufs)) \o extIn = Data
    /\ (pc = "returned" /\ AllStagesDone) => ttyOut = Data
    /\ ParentClosed =>
         \A c \in 2..Len(procs) :
           ( /\ procs[c].st = "running"
             /\ procs[c - 1].st = "exited"
             /\ \A d \in 1..Len(procs) : procs[d].st # "forked" )
           => Writers(procs[c].stage - 1) = 0

C3_Witness ==
  /\ pc = "returned"
  /\ num_commands = 3
  /\ AllStagesDone
  /\ ttyOut = Data
  /\ extIn = <<>>

\* ---- C6
\* positions p and q of ca hold one "<" pair and one ">" or ">>" pair, in
\* either order, and no other token of ca is a redirection operator
TwoPairs(ca, p, q) ==
  /\ 1 <= p /\ p + 1 < q /\ q + 1 <= Len(ca)
  /\ \/ ca[p] = LT /\ ca[q] \in {GT, GTGT}
     \/ ca[q] = LT /\ ca[p] \in {GT, GTGT}
  /\ \A k \in 1..Len(ca) : k \notin {p, p + 1, q, q + 1} => ca[k] \notin RedirOps

SwapPairs(ca, p, q) ==
  SubSeq(ca, 1, p - 1) \o SubSeq(ca, q, q + 1) \o SubSeq(ca, p + 2, q - 1)
    \o SubSeq(ca, p, p + 1) \o SubSeq(ca, q + 2, Len(ca))

WithoutPairs(ca, p, q) ==
  SubSeq(ca, 1, p - 1) \o SubSeq(ca, p + 2, q - 1) \o SubSeq(ca, q + 2, Len(ca))

\* C6: with one input and one output redirection among other tokens, the
\* extraction gives the same paths, append mode and remaining tokens
\* whichever of the two pairs comes first.
C6_RedirectionOrderIndependent ==
  Parsed =>
    \A p \in 1..Len(Stripped), q \in 1..Len(Stripped) :
      TwoPairs(Stripped, p, q) =>
        LET ipos == IF Stripped[p] = LT THEN p ELSE q
            opos == IF Stripped[p] = LT THEN q ELSE p
            other == ExtractRedirections(SwapPairs(Stripped, p, q))
        IN  /\ Range(err) \cap SyntaxErrors = {}
            /\ input_file = Stripped[ipos + 1]
            /\ output_file = Stripped[opos + 1]
            /\ append = (Stripped[opos] = GTGT)
            /\ cmd_args = WithoutPairs(Stripped, p, q)
            /\ other.err = ""
            /\ other.input_file = input_file
            /\ other.output_file = output_file
            /\ other.append = append
            /\ other.cmd_args = cmd_args

C6_Witness ==
  /\ Parsed
  /\ args = <<WordA, GTGT, WordF, LT, WordA>>
  /\ input_file = WordA
  /\ output_file = WordF
  /\ append
  /\ cmd_args = <<WordA>>

\* ---- C9
\* C9 as claimed: a redirection operator as last token of the stripped
\* sequence abandons the command with an error and without a child.
C9_TrailingOperatorAbandons ==
  (Parsed /\ Stripped # <<>> /\ Stripped[Len(Stripped)] \in RedirOps)
    => (pc = "returned" /\ ret = "-1" /\ procs = <<>>)

\* the length of the run of redirection operator tokens that ends ca
RECURSIVE OpTail(_)
OpTail(ca) ==
  IF ca = <<>> \/ ca[Len(ca)] \notin RedirOps THEN 0
  ELSE 1 + OpTail(SubSeq(ca, 1, Len(ca) - 1))

\* the last token is an operator and not the path of the operator before it
LastIsOperator(ca) == OpTail(ca) % 2 = 1

\* C9 amended: a redirection operator that is the last token, and is not
\* itself the path argument of the operator before it, abandons the command
\* with a syntax error and result -1 and without a child, whatever was
\* extracted before.
C9_UnpairedOperatorAbandons ==
  (Parsed /\ LastIsOperator(Stripped))
    => /\ pc = "returned"
       /\ ret = "-1"
       /\ procs = <<>>
       /\ \E e \in SyntaxErrors : err = <<e>>

C9_Witness ==
  /\ args = <<WordA, GT, WordF, LT>>
  /\ pc = "returned"
  /\ ret = "-1"
  /\ output_file = WordF
  /\ procs = <<>>

\* ---- C10
Count(line, ch) == Cardinality({k \in 1..Len(line) : line[k] = ch})
BalancedDoubleQuotes(line) ==
  /\ Count(line, DQ) % 2 = 0
  /\ Count(line, SQ) = 0
  /\ Count(line, BS) = 0

\* position k lies between an opening double quote and its closing one
Quoted(line, k) == Count(SubSeq(line, 1, k - 1), DQ) % 2 = 1
Separates(line, k) == IsSpace(line[k]) /\ ~Quoted(line, k)

\* the words of the line: the maximal stretches without a separating
\* whitespace character, by the position of their first character
WordStarts(line) ==
  {k \in 1..Len(line) : ~Separates(line, k) /\ (k = 1 \/ Separates(line, k - 1))}
WordEnd(line, k) ==
  CHOOSE j \in k..Len(line) :
    /\ \A m \in k..j : ~Separates(line, m)
    /\ j = Len(line) \/ Separates(line, j + 1)
NotDQ(c) == c # DQ
WordText(line, k) == SelectSeq(SubSeq(line, k, WordEnd(line, k)), NotDQ)
TokenStarts(line) == {k \in WordStarts(line) : WordText(line, k) # <<>>}

\* C10: on a line with balanced double quotes and neither single quote nor
\* backslash, the tokens are the words between the whitespace that lies
\* outside quotes, with the quote characters removed and the whitespace
\* inside quotes kept.
C10_DoubleQuotesKeepWhitespace ==
  (pc = "tokenized" /\ BalancedDoubleQuotes(input)) =>
    /\ Len(tokens) = Cardinality(TokenStarts(input))
    /\ \A k \in TokenStarts(input) :
         tokens[Cardinality({j \in TokenStarts(input) : j <= k})] = WordText(input, k)
    /\ \A n \in 1..Len(tokens) : DQ \notin Range(tokens[n])

C10_Witness ==
  /\ pc = "tokenized"
  /\ input = <<"a", DQ, "b", " ", DQ>>
  /\ tokens = << <<"a", "b", " ">> >>

\* ---- C12
\* the byte values that std::string compares
CharCode(c) ==
  CASE c = STAR -> 42 [] c = DOT -> 46 [] c = SLASH -> 47
    [] c = "a" -> 97 [] c = "b" -> 98 [] OTHER -> 0

RECURSIVE LexLeq(_, _)
LexLeq(x, y) ==
  IF x = <<>> THEN TRUE
  ELSE IF y = <<>> THEN FALSE
  ELSE IF CharCode(x[1]) # CharCode(y[1]) THEN CharCode(x[1]) < CharCode(y[1])
  ELSE LexLeq(Tail(x), Tail(y))

\* C12: whatever the order in which the directory is listed, the result of
\* the expansion is in lexicographically sorted order.
C12_MatchesSorted ==
  pc = "expanded" =>
    \A m \in 1..Len(matches), n \in 1..Len(matches) :
      m < n => LexLeq(matches[m], matches[n])

\* ---- C13
\* what the directory listing offers to the pattern
Candidates ==
  {k \in 1..Len(dirents) :
     /\ GlobMatches(FilePattern(pattern), dirents[k])
     /\ dirents[k][1] # DOT
          \/ (FilePattern(pattern) # <<>> /\ FilePattern(pattern)[1] = DOT)}
CandidatePaths == {FullPath(DirPath(pattern), dirents[k]) : k \in Candidates}
NothingFound == ~OpenDir(DirPath(pattern), dirOk) \/ Candidates = {}

IsPrefix(x, y) == Len(x) <= Len(y) /\ SubSeq(y, 1, Len(x)) = x

\* C18: for a pattern P* whose only wildcard is its last character, every
\* entry that is not hidden and starts with P is matched, the entry named
\* exactly P included.
C18_TrailingStarMatchesAnySuffix ==
  ( /\ pc = "expanded"
    /\ dirOk
    /\ pattern[Len(pattern)] = STAR
    /\ \A k \in 1..(Len(pattern) - 1) : pattern[k] \notin {STAR, SLASH} )
  => \A k \in 1..Len(dirents) :
       ( /\ dirents[k][1] # DOT
         /\ IsPrefix(SubSeq(pattern, 1, Len(pattern) - 1), dirents[k]) )
       => dirents[k] \in Range(matches)

\* ---- C11
\* position k follows a backslash that is not itself escaped
RECURSIVE Escaped(_, _)
Escaped(line, k) == k > 1 /\ line[k - 1] = BS /\ ~Escaped(line, k - 1)

\* position k lies after an odd number of double quotes that are not escaped
InDoubleQuotes(line, k) ==
  Cardinality({m \in 1..(k - 1) : line[m] = DQ /\ ~Escaped(line, m)}) % 2 = 1

\* single-quote mode is never entered: every single quote is escaped or
\* lies between double quotes
NoSingleQuoteMode(line) ==
  \A k \in 1..Len(line) :
    line[k] = SQ => (Escaped(line, k) \/ InDoubleQuotes(line, k))

EscSeparates(line, k) ==
  IsSpace(line[k]) /\ ~Escaped(line, k) /\ ~InDoubleQuotes(line, k)
EscContent(line, k) ==
  \/ Escaped(line, k)
  \/ line[k] \notin {BS, DQ} /\ ~EscSeparates(line, k)

EscWordStarts(line) ==
  {k \in 1..Len(line) : ~EscSeparates(line, k) /\ (k = 1 \/ EscSeparates(line, k - 1))}
EscWordEnd(line, k) ==
  CHOOSE j \in k..Len(line) :
    /\ \A m \in k..j : ~EscSeparates(line, m)
    /\ j = Len(line) \/ EscSeparates(line, j + 1)
RECURSIVE EscPick(_, _, _)
EscPick(line, k, j) ==
  IF k > j THEN <<>>
  ELSE (IF EscContent(line, k) THEN <<line[k]>> ELSE <<>>) \o EscPick(line, k + 1, j)
EscWordText(line, k) == EscPick(line, k, EscWordEnd(line, k))
EscTokenStarts(line) == {k \in EscWordStarts(line) : EscWordText(line, k) # <<>>}

\* C11: outside single-quote mode a backslash is dropped and the character
\* after it is content of the token: escaped whitespace does not end the
\* token and an escaped quote character changes no quote mode.
C11_BackslashMakesNextLiteral ==
  (pc = "tokenized" /\ NoSingleQuoteMode(input)) =>
    /\ Len(tokens) = Cardinality(EscTokenStarts(input))
    /\ \A k \in EscTokenStarts(input) :
         tokens[Cardinality({j \in EscTokenStarts(input) : j <= k})] = EscWordText(input, k)

C11_Witness ==
  /\ pc = "tokenized"
  /\ input = <<"a", BS, " ", BS, DQ>>
  /\ tokens = << <<"a", " ", DQ>> >>

\* ---- C19
\* C19: between single quotes a backslash is an ordinary character, and a
\* single quote after it still closes the quote: a line that is one
\* single-quoted text without quote characters yields that text as its token.
C19_BackslashLiteralInSingleQuotes ==
  ( /\ pc = "tokenized"
    /\ Len(input) >= 3
    /\ input[1] = SQ
    /\ input[Len(input)] = SQ
    /\ \A k \in 2..(Len(input) - 1) : input[k] \notin {SQ, DQ} )
  => tokens = <<SubSeq(input, 2, Len(input) - 1)>>

\* ---- C20
RECURSIVE Flatten(_)
Flatten(ss) == IF ss = <<>> THEN <<>> ELSE Head(ss) \o Flatten(Tail(ss))

\* x is y with some characters left out
RECURSIVE IsSubsequence(_, _)
IsSubsequence(x, y) ==
  IF x = <<>> THEN TRUE
  ELSE IF y = <<>> THEN FALSE
  ELSE IF Head(x) = Head(y) THEN IsSubsequence(Tail(x), Tail(y))
  ELSE IsSubsequence(x, Tail(y))

\* C20: on every line no token is empty, and the tokens, one after the
\* other, are the characters of the line that were kept, in the line's order.
C20_TokensNonEmptyInOrder ==
  pc = "tokenized" =>
    /\ \A n \in 1..Len(tokens) : tokens[n] # <<>>
    /\ \A n \in 1..Len(args) : args[n] # <<>>
    /\ IsSubsequence(Flatten(tokens), input)

C20_Witness ==
  /\ pc = "tokenized"
  /\ input = <<DQ, DQ, " ", SQ, "a">>
  /\ tokens = << <<"a">> >>

\* ---- C17
\* position k holds a redirection operator that acts as one: it is not the
\* path argument of the operator before it
RECURSIVE OpRole(_, _)
OpRole(ca, k) == ca[k] \in RedirOps /\ ~(k > 1 /\ OpRole(ca, k - 1))

InOps(ca) == {k \in 1..Len(ca) : OpRole(ca, k) /\ ca[k] = LT}
OutOps(ca) == {k \in 1..Len(ca) : OpRole(ca, k) /\ ca[k] \in {GT, GTGT}}
EveryOpHasPath(ca) == \A k \in InOps(ca) \cup OutOps(ca) : k < Len(ca)
Leftmost(S) == CHOOSE k \in S : \A m \in S : k <= m
Rightmost(S) == CHOOSE k \in S : \A m \in S : k >= m
NotRedirection(ca) ==
  {k \in 1..Len(ca) : ~OpRole(ca, k) /\ ~(k > 1 /\ OpRole(ca, k - 1))}
RECURSIVE KeepAt(_, _, _)
KeepAt(ca, k, S) ==
  IF k > Len(ca) THEN <<>>
  ELSE (IF k \in S THEN <<ca[k]>> ELSE <<>>) \o KeepAt(ca, k + 1, S)
Repeated(ca) == Cardinality(InOps(ca)) > 1 \/ Cardinality(OutOps(ca)) > 1

\* C17 as claimed: when "<" or an output operator occurs more than once, the
\* path of the leftmost "<" and the path and mode of the leftmost output
\* operator are honoured, and all operators and paths leave the command.
C17_FirstOccurrenceWins ==
  (Parsed /\ EveryOpHasPath(Stripped) /\ Repeated(Stripped)) =>
    /\ InOps(Stripped) # {} => input_file = Stripped[Leftmost(InOps(Stripped)) + 1]
    /\ OutOps(Stripped) # {} =>
         /\ output_file = Stripped[Leftmost(OutOps(Stripped)) + 1]
         /\ append = (Stripped[Leftmost(OutOps(Stripped))] = GTGT)
    /\ cmd_args = KeepAt(Stripped, 1, NotRedirection(Stripped))

\* C17 amended: when "<" or an output operator occurs more than once, the
\* path of the rightmost "<" and the path and mode of the rightmost output
\* operator are honoured, and all operators and paths leave the command.
C17_LastOccurrenceWins ==
  (Parsed /\ EveryOpHasPath(Stripped) /\ Repeated(Stripped)) =>
    /\ Range(err) \cap SyntaxErrors = {}
    /\ InOps(Stripped) # {} => input_file = Stripped[Rightmost(InOps(Stripped)) + 1]
    /\ InOps(Stripped) = {} => input_file = EmptyStr
    /\ OutOps(Stripped) # {} =>
         /\ output_file = Stripped[Rightmost(OutOps(Stripped)) + 1]
         /\ append = (Stripped[Rightmost(OutOps(Stripped))] = GTGT)
    /\ OutOps(Stripped) = {} => output_file = EmptyStr /\ ~append
    /\ cmd_args = KeepAt(Stripped, 1, NotRedirection(Stripped))

C17_Witness ==
  /\ Parsed
  /\ args = <<WordA, GTGT, WordA, GT, WordF>>
  /\ output_file = WordF
  /\ ~append
  /\ input_file = EmptyStr
  /\ cmd_args = <<WordA>>

\* ---- C14
\* the step is handle_cd's
CdStep == pc = "builtin" /\ args[1] = WordCd /\ pc' = "prompt"

\* the cd at hand is one with no argument or with a path, and its chdir succeeds
CdChangesDirectory ==
  \/ Len(args) = 1 /\ home # EmptyStr /\ ChdirOk(home)
  \/ Len(args) = 2 /\ args[2] # Dash /\ ChdirOk(args[2])

\* C14: a cd with no argument or with a path that succeeds records the
\* directory it left as the previous directory, and every other cd (one
\* that fails, "cd -", too many arguments) leaves the previous directory
\* as it was.
C14_PreviousDirectoryTracksChanges ==
  [][CdStep => IF CdChangesDirectory THEN oldpwd' = cwd ELSE oldpwd' = oldpwd]_vars

\* ---- C15
\* C15: the shell process ends only by the exit builtin or at end of input.
C15_OnlyExitEndsShell ==
  pc = "terminated" => cause \in {"exit", "eof"}

\* ---- C16
StagesOf(line) ==
  SplitPipeline(ExtractRedirections(StripBackground(line).cmd_args).cmd_args)
BuiltinInPipeline(line) ==
  /\ Len(StagesOf(line)) >= 2
  /\ \E k \in 1..Len(StagesOf(line)) : is_builtin(StagesOf(line)[k][1])

\* C16: for a line of two or more stages with a builtin name as the command
\* of some stage, execute_builtin is not entered, and once all children are
\* created there is one child per stage with that stage as its argv.
C16_PipelinedBuiltinRunsExternally ==
  (pc # "prompt" /\ BuiltinInPipeline(args)) =>
    /\ pc # "builtin"
    /\ pc \in {"close_loop", "wait_loop"} =>
         /\ Len(pids) = Len(StagesOf(args))
         /\ \A k \in 1..Len(pids) : procs[pids[k]].argv = StagesOf(args)[k]

\* ---- C21
\* the quote character whose mode is open when the line ends, "" if none is
OpenQuote(line) ==
  LET s == Scan(line, 1, ScanStart)
  IN  IF s.in_quote THEN DQ ELSE IF s.in_single_quote THEN SQ ELSE ""

\* C21: a line that ends while a quote mode is open yields exactly the
\* tokens of the same line with the closing quote character appended.
C21_UnterminatedQuoteClosedAtEnd ==
  (pc = "tokenized" /\ OpenQuote(input) # "") =>
    tokens = Tokenize(Append(input, OpenQuote(input)))

\* the same for the lines that do not end in a backslash awaiting its character
C21_ClosedAtEndUnlessEscapePending ==
  (pc = "tokenized" /\ OpenQuote(input) # "" /\ ~Scan(input, 1, ScanStart).escape_next) =>
    tokens = Tokenize(Append(input, OpenQuote(input)))

\* ---- C22
SomeChildWaitedFor == \E c \in 1..Len(procs) : procs[c].reaped

\* C22: in a pipeline of two or more stages the parent is at a wait, or has
\* completed one, only when a child exists for every stage and the parent
\* holds none of the pipe endpoints.
C22_WaitsOnlyAfterAllCreatedAndClosed ==
  (Parsed /\ num_commands > 1 /\ (pc = "wait_loop" \/ SomeChildWaitedFor)) =>
    /\ Len(pids) = num_commands
    /\ Len(procs) = num_commands
    /\ \A k \in 1..num_commands : procs[pids[k]].stage = k - 1
    /\ parentFds \cap AllPipeFds(num_commands) = {}

\* the last stage has delivered output while the first one is still running
\* with input left to copy, and no child has been waited for
C22_Witness ==
  /\ pc = "wait_loop"
  /\ num_commands = 2
  /\ ~SomeChildWaitedFor
  /\ procs[1].st = "running"
  /\ procs[2].st = "running"
  /\ extIn # <<>>
  /\ ttyOut # <<>>

\* ---- C23
\* the tokens of the line, each one that holds a "*" replaced by the
\* directory entries it matches, or left as it is when none does
HasStar(tok) == \E k \in 1..Len(tok) : tok[k] = STAR
MatchingEntries(tok) ==
  SelectSeq(dirents, LAMBDA fn : GlobMatches(FilePattern(tok), fn)
                                   /\ ~SkippedAsHidden(FilePattern(tok), fn))
RECURSIVE TextArgs(_)
TextArgs(toks) ==
  IF toks = <<>> THEN <<>>
  ELSE (IF HasStar(Head(toks)) /\ MatchingEntries(Head(toks)) # <<>>
        THEN MatchingEntries(Head(toks))
        ELSE <<Head(toks)>>)
       \o TextArgs(Tail(toks))

\* the arguments without a last "&"
TextCommand(a) ==
  IF a # <<>> /\ a[Len(a)] = AMP THEN SubSeq(a, 1, Len(a) - 1) ELSE a

\* the first tokens of the maximal runs of non-"|" tokens
RunStarts(ca) == {a \in 1..Len(ca) : ca[a] # PIPE /\ (a = 1 \/ ca[a - 1] = PIPE)}
RunEnd(ca, a) == CHOOSE b \in a..Len(ca) : IsMaximalRun(ca, a, b)

====
